---- MODULE Spec2Model ----
(***************************************************************************)
(* A model of app4.py: the word-frequency pipeline run by main() when the  *)
(* "抓取并分析" button is pressed.  A string is a sequence of Unicode code     *)
(* points, a token is a string, and the Counter is the sequence of its     *)
(* (word, count) items in insertion order.                                 *)
(***************************************************************************)
EXTENDS Integers, Sequences, FiniteSets, TLC

VARIABLES
    pc,                 \* the position of main() in its body
    url,                \* st.sidebar.text_input
    stopwords_file,     \* st.sidebar.file_uploader: NoFile or the uploaded file
    chart_type,         \* st.sidebar.selectbox
    stopwords,          \* the set read from the file (line 65)
    html,               \* the text fetch_content returned (line 72)
    clean_text,         \* lines 73-74
    words,              \* jieba.lcut(clean_text) (line 75)
    meaningful_words,   \* line 78
    word_counts,        \* line 79
    most_common_words,  \* line 80
    exc,                \* the exception in flight inside the try block
    errors,             \* the messages passed to st.error, in order
    rendered,           \* what was written to the page, in order
    fetches,            \* the number of requests.get calls issued
    uncaught,           \* an exception left main() (raised outside the try)
    response,           \* what requests.get met: NoResponse until it returns
    steps               \* the steps of main() executed so far, in order

vars == <<pc, url, stopwords_file, chart_type, stopwords, html, clean_text,
          words, meaningful_words, word_counts, most_common_words, exc,
          errors, rendered, fetches, uncaught, response, steps>>

inputs == <<url, stopwords_file, chart_type>>

(***************************************************************************)
(* Characters                                                              *)
(***************************************************************************)
LT == 60            \* '<'
GT == 62            \* '>'
PLUS == 43          \* '+'
SPACE == 32
CJK_FIRST == 19968  \* U+4E00
CJK_LAST == 40869   \* U+9FA5

\* str.isspace() characters, which \s matches in a str pattern
WhiteSpace == (9..13) \cup (28..32) \cup {133, 160, 5760} \cup (8192..8202)
                \cup {8232, 8233, 8239, 8287, 12288}

\* the class [A-Za-z0-9\s+]
InAsciiClass(c) ==
    \/ c \in 65..90
    \/ c \in 97..122
    \/ c \in 48..57
    \/ c \in WhiteSpace
    \/ c = PLUS

\* the range 一-龥
InCJK(c) == c \in CJK_FIRST..CJK_LAST

(***************************************************************************)
(* remove_html_tags: re.sub(r'<[^>]+>', '', html)                          *)
(***************************************************************************)
\* the index of the first '>' after position i, or 0
FirstGT(s, i) ==
    IF \E j \in (i+1)..Len(s) : s[j] = GT
    THEN CHOOSE j \in (i+1)..Len(s) :
            s[j] = GT /\ \A k \in (i+1)..(j-1) : s[k] # GT
    ELSE 0

\* the end of the match of <[^>]+> that starts at i, or 0 when none does:
\* [^>]+ takes every character up to the next '>', and needs at least one
TagMatchEnd(s, i) ==
    IF i <= Len(s) /\ s[i] = LT /\ FirstGT(s, i) >= i + 2
    THEN FirstGT(s, i)
    ELSE 0

RECURSIVE SubTags(_, _)
SubTags(s, i) ==
    IF i > Len(s) THEN <<>>
    ELSE IF TagMatchEnd(s, i) # 0 THEN SubTags(s, TagMatchEnd(s, i) + 1)
    ELSE <<s[i]>> \o SubTags(s, i + 1)

\* a faulty variant, the pattern <[^>]*>: "<>" goes too
RECURSIVE SubTagsStar(_, _)
SubTagsStar(s, i) ==
    IF i > Len(s) THEN <<>>
    ELSE IF s[i] = LT /\ FirstGT(s, i) # 0 THEN SubTagsStar(s, FirstGT(s, i) + 1)
    ELSE <<s[i]>> \o SubTagsStar(s, i + 1)
remove_html_tags_star(s) == SubTagsStar(s, 1)
\* re.sub(r'<[^>]+>', '', html)
remove_html_tags(s) == SubTags(s, 1)

(***************************************************************************)
(* remove_punctuation_and_english:                                         *)
(*     re.sub(r'[A-Za-z0-9\s+]|[^一-龥]+', '', text)               *)
(***************************************************************************)
\* the end of the run of characters outside the CJK range that starts at i
RECURSIVE NonCJKRunEnd(_, _)
NonCJKRunEnd(s, i) ==
    IF i < Len(s) /\ ~InCJK(s[i + 1]) THEN NonCJKRunEnd(s, i + 1) ELSE i

\* the end of the match that starts at i, or 0: the first alternative takes
\* one character of the class, the second a run outside the range
CharMatchEnd(s, i) ==
    IF InAsciiClass(s[i]) THEN i
    ELSE IF ~InCJK(s[i]) THEN NonCJKRunEnd(s, i)
    ELSE 0

RECURSIVE SubChars(_, _)
SubChars(s, i) ==
    IF i > Len(s) THEN <<>>
    ELSE IF CharMatchEnd(s, i) # 0 THEN SubChars(s, CharMatchEnd(s, i) + 1)
    ELSE <<s[i]>> \o SubChars(s, i + 1)

\* a faulty variant, the pattern without its second alternative
NotInAsciiClass(c) == ~InAsciiClass(c)
remove_ascii_class_only(s) == SelectSeq(s, NotInAsciiClass)
\* the whole pattern
remove_punctuation_and_english(s) == SubChars(s, 1)

(***************************************************************************)
(* Tokens                                                                  *)
(***************************************************************************)
Apple == <<33529, 26524>>     \* 苹果
Banana == <<39321, 34121>>    \* 香蕉
Orange == <<27225, 23376>>    \* 橙子
Cat == <<29483>>              \* 猫
De == <<30340>>               \* 的
W(i) == <<CJK_FIRST + i, CJK_FIRST>>    \* a two-character word, one per i

Range(s) == {s[i] : i \in 1..Len(s)}
Min(a, b) == IF a <= b THEN a ELSE b
SeqsUpTo(A, n) == UNION {[1..k -> A] : k \in 0..n}

(***************************************************************************)
(* Lines 78-80: the filter, Counter and Counter.most_common                *)
(***************************************************************************)
TopN == 20

\* a faulty variant: one-character words are kept
KeepLen1(word, stop) == word \notin stop /\ Len(word) >= 1
\* the condition of the comprehension on line 78
Meaningful(word, stop) == word \notin stop /\ Len(word) > 1

\* [word for word in words if ...]
RECURSIVE FilterWords(_, _)
FilterWords(ws, stop) ==
    IF ws = <<>> THEN <<>>
    ELSE IF Meaningful(Head(ws), stop)
         THEN <<Head(ws)>> \o FilterWords(Tail(ws), stop)
         ELSE FilterWords(Tail(ws), stop)

HasKey(c, w) == \E i \in 1..Len(c) : c[i][1] = w

\* c[w] += 1: an existing key keeps its place, a new key goes to the end
RECURSIVE Bump(_, _)
Bump(c, w) ==
    IF c = <<>> THEN <<>>
    ELSE <<IF Head(c)[1] = w THEN <<w, Head(c)[2] + 1>> ELSE Head(c)>>
            \o Bump(Tail(c), w)
Incr(c, w) == IF HasKey(c, w) THEN Bump(c, w) ELSE Append(c, <<w, 1>>)

\* Counter.update(iterable) on the counter c
RECURSIVE CounterUpdate(_, _)
CounterUpdate(c, ws) ==
    IF ws = <<>> THEN c ELSE CounterUpdate(Incr(c, Head(ws)), Tail(ws))

\* Counter(iterable)
Counter(ws) == CounterUpdate(<<>>, ws)

\* a faulty variant: the item goes before the items of its own count
RECURSIVE InsertUnstable(_, _)
InsertUnstable(sorted, item) ==
    IF sorted = <<>> THEN <<item>>
    ELSE IF Head(sorted)[2] > item[2]
         THEN <<Head(sorted)>> \o InsertUnstable(Tail(sorted), item)
         ELSE <<item>> \o sorted
\* one step of the stable sort by count, largest first: the item goes after
\* every item whose count is at least its own
RECURSIVE InsertDesc(_, _)
InsertDesc(sorted, item) ==
    IF sorted = <<>> THEN <<item>>
    ELSE IF Head(sorted)[2] >= item[2]
         THEN <<Head(sorted)>> \o InsertDesc(Tail(sorted), item)
         ELSE <<item>> \o sorted

\* sorted(items, key=itemgetter(1), reverse=True)
RECURSIVE SortedDesc(_)
SortedDesc(items) ==
    IF items = <<>> THEN <<>>
    ELSE InsertDesc(SortedDesc(SubSeq(items, 1, Len(items) - 1)),
                    items[Len(items)])

\* a faulty variant: the result is not cut to n
most_common_all(c, n) == SortedDesc(c)
\* Counter.most_common(n): heapq.nlargest(n, items, key=itemgetter(1))
most_common(c, n) == SubSeq(SortedDesc(c), 1, Min(n, Len(c)))

(***************************************************************************)
(* The collaborators main() calls                                          *)
(***************************************************************************)
\* an uploaded file: its text, or bytes that are not UTF-8
NoFile == [uploaded |-> FALSE, utf8 |-> TRUE, text |-> <<>>]
Undecodable == [uploaded |-> TRUE, utf8 |-> FALSE, text |-> <<>>]
TextFile(t) == [uploaded |-> TRUE, utf8 |-> TRUE, text |-> t]

\* what requests.get meets: no connection, or a response; NoResponse while
\* it has not returned
NoResponse == [connected |-> FALSE, status |-> -1, text |-> <<>>]
NoConnection == [connected |-> FALSE, status |-> 0, text |-> <<>>]
HttpResponse(st, t) == [connected |-> TRUE, status |-> st, text |-> t]

NoExc == "none"

\* validators.url: a scheme and a host
UrlGood == "https://example.com"
UrlNoScheme == "example.com"
UrlEmpty == ""
validators_url(u) == u = UrlGood

\* str.splitlines
LineBreaks == {10, 11, 12, 13, 28, 29, 30, 133, 8232, 8233}
RECURSIVE SplitLines(_, _, _)
SplitLines(s, i, cur) ==
    IF i > Len(s) THEN (IF cur = <<>> THEN <<>> ELSE <<cur>>)
    ELSE IF s[i] \in LineBreaks
         THEN <<cur>> \o SplitLines(s,
                  IF s[i] = 13 /\ i < Len(s) /\ s[i + 1] = 10 THEN i + 2 ELSE i + 1,
                  <<>>)
         ELSE SplitLines(s, i + 1, Append(cur, s[i]))
splitlines(s) == SplitLines(s, 1, <<>>)

\* Response.raise_for_status raises HTTPError for a 4xx or 5xx status
raise_for_status(status) == 400 <= status /\ status < 600

\* jieba.lcut: the text cut into consecutive pieces, none empty
RECURSIVE Concat(_)
Concat(ws) == IF ws = <<>> THEN <<>> ELSE Head(ws) \o Concat(Tail(ws))
RECURSIVE Segmentations(_)
Segmentations(t) ==
    IF t = <<>> THEN {<<>>}
    ELSE UNION {{<<SubSeq(t, 1, k)>> \o rest :
                    rest \in Segmentations(SubSeq(t, k + 1, Len(t)))} :
                k \in 1..Len(t)}

\* WordCloud.generate_from_frequencies raises ValueError ("We need at least
\* 1 word to plot a word cloud, got 0.") for an empty mapping
generate_wordcloud_raises(counts) == Len(counts) = 0

ChartTypes == {"bar", "pie", "line", "area", "scatter", "box", "wordcloud"}

ERR_URL == "invalid url"            \* line 60
ERR_STOPWORDS == "no stopword file" \* line 67

(***************************************************************************)
(* The inputs of the runs checked                                          *)
(***************************************************************************)
Urls == {UrlGood, UrlNoScheme, UrlEmpty}

Files == {NoFile, Undecodable, TextFile(<<>>),
          TextFile(Apple \o <<10>> \o De \o <<13, 10>>)}

\* "<p>hi</p>", "<b>苹果</b>, 香蕉苹果!", "苹果<>香蕉"
Bodies == { <<>>,
            <<LT, 112, GT, 104, 105, LT, 47, 112, GT>>,
            <<LT, 98, GT>> \o Apple \o <<LT, 47, 98, GT, 44, SPACE>>
                \o Banana \o Apple \o <<33>>,
            De \o <<LT, GT>> \o Cat }

Statuses == {200, 304, 404, 500}
Responses == {NoConnection}
                \cup {HttpResponse(st, b) : st \in Statuses, b \in Bodies}

(***************************************************************************)
(* main(): one action per step of the handler of the button                *)
(***************************************************************************)
Step(name) == steps' = Append(steps, name)

\* line 57: the button is pressed
Press ==
    /\ pc = "idle"
    /\ pc' = "validate_url"
    /\ UNCHANGED <<inputs, stopwords, html, clean_text, words,
                   meaningful_words, word_counts, most_common_words, exc,
                   errors, rendered, fetches, uncaught, response, steps>>

\* a faulty variant of lines 59-61: the error is reported and main() goes on
ValidateUrlNoReturn ==
    /\ pc = "validate_url"
    /\ errors' = IF validators_url(url) THEN errors ELSE Append(errors, ERR_URL)
    /\ pc' = "read_stopwords"
    /\ Step("validate_url")
    /\ UNCHANGED <<inputs, stopwords, html, clean_text, words,
                   meaningful_words, word_counts, most_common_words, exc,
                   rendered, fetches, uncaught, response>>
\* lines 59-61
ValidateUrl ==
    /\ pc = "validate_url"
    /\ \/ /\ ~validators_url(url)
          /\ errors' = Append(errors, ERR_URL)
          /\ pc' = "done"
       \/ /\ validators_url(url)
          /\ errors' = errors
          /\ pc' = "read_stopwords"
    /\ Step("validate_url")
    /\ UNCHANGED <<inputs, stopwords, html, clean_text, words,
                   meaningful_words, word_counts, most_common_words, exc,
                   rendered, fetches, uncaught, response>>

\* a faulty variant of lines 64-68: the missing file is reported and main()
\* goes on with no stopwords
ReadStopwordsNoReturn ==
    /\ pc = "read_stopwords"
    /\ \/ /\ stopwords_file.uploaded /\ stopwords_file.utf8
          /\ stopwords' = Range(splitlines(stopwords_file.text))
          /\ pc' = "fetch"
          /\ UNCHANGED <<errors, uncaught>>
       \/ /\ stopwords_file.uploaded /\ ~stopwords_file.utf8
          /\ uncaught' = TRUE
          /\ pc' = "done"
          /\ UNCHANGED <<errors, stopwords>>
       \/ /\ ~stopwords_file.uploaded
          /\ errors' = Append(errors, ERR_STOPWORDS)
          /\ pc' = "fetch"
          /\ UNCHANGED <<stopwords, uncaught>>
    /\ Step("read_stopwords")
    /\ UNCHANGED <<inputs, html, clean_text, words, meaningful_words,
                   word_counts, most_common_words, exc, rendered, fetches,
                   response>>
\* lines 64-68; the decode is outside the try block, so its exception
\* leaves main()
ReadStopwords ==
    /\ pc = "read_stopwords"
    /\ \/ /\ stopwords_file.uploaded /\ stopwords_file.utf8
          /\ stopwords' = Range(splitlines(stopwords_file.text))
          /\ pc' = "fetch"
          /\ UNCHANGED <<errors, uncaught>>
       \/ /\ stopwords_file.uploaded /\ ~stopwords_file.utf8
          /\ uncaught' = TRUE
          /\ pc' = "done"
          /\ UNCHANGED <<errors, stopwords>>
       \/ /\ ~stopwords_file.uploaded
          /\ errors' = Append(errors, ERR_STOPWORDS)
          /\ pc' = "done"
          /\ UNCHANGED <<stopwords, uncaught>>
    /\ Step("read_stopwords")
    /\ UNCHANGED <<inputs, html, clean_text, words, meaningful_words,
                   word_counts, most_common_words, exc, rendered, fetches,
                   response>>

\* line 72 and fetch_content, lines 18-22: requests.get is called, with no
\* timeout, and main() waits for it
SendRequest ==
    /\ pc = "fetch"
    /\ pc' = "await_response"
    /\ fetches' = fetches + 1
    /\ Step("fetch")
    /\ UNCHANGED <<inputs, stopwords, html, clean_text, words,
                   meaningful_words, word_counts, most_common_words, exc,
                   errors, rendered, uncaught, response>>

\* lines 22-25 and 72: requests.get raises or returns, when the server or the
\* network lets it
FetchContent ==
    /\ pc = "await_response"
    /\ \E r \in Responses :
        /\ response' = r
        /\ \/ /\ ~r.connected
              /\ exc' = "ConnectionError"
              /\ pc' = "except"
              /\ html' = html
           \/ /\ r.connected /\ raise_for_status(r.status)
              /\ exc' = "HTTPError"
              /\ pc' = "except"
              /\ html' = html
           \/ /\ r.connected /\ ~raise_for_status(r.status)
              /\ html' = r.text
              /\ pc' = "strip_tags"
              /\ exc' = exc
    /\ UNCHANGED <<inputs, stopwords, clean_text, words, meaningful_words,
                   word_counts, most_common_words, errors, rendered,
                   uncaught, fetches, steps>>

\* line 73
StripTags ==
    /\ pc = "strip_tags"
    /\ clean_text' = remove_html_tags(html)
    /\ pc' = "filter_chars"
    /\ Step("strip_tags")
    /\ UNCHANGED <<inputs, stopwords, html, words, meaningful_words,
                   word_counts, most_common_words, exc, errors, rendered,
                   fetches, uncaught, response>>

\* line 74
FilterChars ==
    /\ pc = "filter_chars"
    /\ clean_text' = remove_punctuation_and_english(clean_text)
    /\ pc' = "segment"
    /\ Step("filter_chars")
    /\ UNCHANGED <<inputs, stopwords, html, words, meaningful_words,
                   word_counts, most_common_words, exc, errors, rendered,
                   fetches, uncaught, response>>

\* line 75
Segment ==
    /\ pc = "segment"
    /\ \E ws \in Segmentations(clean_text) : words' = ws
    /\ pc' = "filter"
    /\ Step("segment")
    /\ UNCHANGED <<inputs, stopwords, html, clean_text, meaningful_words,
                   word_counts, most_common_words, exc, errors, rendered,
                   fetches, uncaught, response>>

\* line 78
FilterStep ==
    /\ pc = "filter"
    /\ meaningful_words' = FilterWords(words, stopwords)
    /\ pc' = "count"
    /\ Step("filter")
    /\ UNCHANGED <<inputs, stopwords, html, clean_text, words, word_counts,
                   most_common_words, exc, errors, rendered, fetches,
                   uncaught, response>>

\* line 79
CountStep ==
    /\ pc = "count"
    /\ word_counts' = Counter(meaningful_words)
    /\ pc' = "rank"
    /\ Step("count")
    /\ UNCHANGED <<inputs, stopwords, html, clean_text, words,
                   meaningful_words, most_common_words, exc, errors,
                   rendered, fetches, uncaught, response>>

\* lines 80-81
RankStep ==
    /\ pc = "rank"
    /\ most_common_words' = most_common(word_counts, TopN)
    /\ pc' = "show_text"
    /\ Step("rank")
    /\ UNCHANGED <<inputs, stopwords, html, clean_text, words,
                   meaningful_words, word_counts, exc, errors, rendered,
                   fetches, uncaught, response>>

\* lines 84-85
ShowText ==
    /\ pc = "show_text"
    /\ rendered' = Append(rendered, "text")
    /\ pc' = "show_table"
    /\ Step("show_text")
    /\ UNCHANGED <<inputs, stopwords, html, clean_text, words,
                   meaningful_words, word_counts, most_common_words, exc,
                   errors, fetches, uncaught, response>>

\* lines 88-89
ShowTable ==
    /\ pc = "show_table"
    /\ rendered' = rendered \o <<"caption", "table">>
    /\ pc' = "chart"
    /\ Step("show_table")
    /\ UNCHANGED <<inputs, stopwords, html, clean_text, words,
                   meaningful_words, word_counts, most_common_words, exc,
                   errors, fetches, uncaught, response>>

\* lines 92-160 and generate_wordcloud, lines 36-42
Chart ==
    /\ pc = "chart"
    /\ \/ /\ chart_type # "wordcloud"
          /\ rendered' = Append(rendered, "chart")
          /\ pc' = "done"
          /\ exc' = exc
       \/ /\ chart_type = "wordcloud"
          /\ ~generate_wordcloud_raises(word_counts)
          /\ rendered' = rendered \o <<"cloud_caption", "chart">>
          /\ pc' = "done"
          /\ exc' = exc
       \/ /\ chart_type = "wordcloud"
          /\ generate_wordcloud_raises(word_counts)
          /\ rendered' = Append(rendered, "cloud_caption")
          /\ pc' = "except"
          /\ exc' = "ValueError"
    /\ Step("chart")
    /\ UNCHANGED <<inputs, stopwords, html, clean_text, words,
                   meaningful_words, word_counts, most_common_words, errors,
                   fetches, uncaught, response>>

\* lines 162-163
Except ==
    /\ pc = "except"
    /\ errors' = Append(errors, exc)
    /\ pc' = "done"
    /\ Step("except")
    /\ UNCHANGED <<inputs, stopwords, html, clean_text, words,
                   meaningful_words, word_counts, most_common_words, exc,
                   rendered, fetches, uncaught, response>>

Init ==
    /\ pc = "idle"
    /\ url \in Urls
    /\ stopwords_file \in Files
    /\ chart_type \in ChartTypes
    /\ stopwords = {}
    /\ html = <<>>
    /\ clean_text = <<>>
    /\ words = <<>>
    /\ meaningful_words = <<>>
    /\ word_counts = <<>>
    /\ most_common_words = <<>>
    /\ exc = NoExc
    /\ errors = <<>>
    /\ rendered = <<>>
    /\ fetches = 0
    /\ uncaught = FALSE
    /\ response = NoResponse
    /\ steps = <<>>

Next ==
    \/ Press
    \/ ValidateUrl
    \/ ReadStopwords
    \/ SendRequest
    \/ FetchContent
    \/ StripTags
    \/ FilterChars
    \/ Segment
    \/ FilterStep
    \/ CountStep
    \/ RankStep
    \/ ShowText
    \/ ShowTable
    \/ Chart
    \/ Except

Spec == Init /\ [][Next]_vars

\* main() is one synchronous call: once the button is pressed, every step
\* that is main()'s own to take is taken.  Pressing the button is the user's
\* step and the return of requests.get the server's: neither has to happen
Running ==
    \/ ValidateUrl
    \/ ReadStopwords
    \/ SendRequest
    \/ StripTags
    \/ FilterChars
    \/ Segment
    \/ FilterStep
    \/ CountStep
    \/ RankStep
    \/ ShowText
    \/ ShowTable
    \/ Chart
    \/ Except
FairSpec == Spec /\ WF_vars(Running)

(***************************************************************************)
(* The normalizer alone (lines 73-74), after a fetch that returned html    *)
(***************************************************************************)
MaxHtmlLen == 5
NormAlphabet == {LT, GT, 97, PLUS, SPACE, CJK_FIRST, CJK_LAST, CJK_LAST + 1}

\* one stopword per line
RECURSIVE JoinLines(_)
JoinLines(ls) == IF ls = <<>> THEN <<>> ELSE Head(ls) \o <<10>> \o JoinLines(Tail(ls))

AfterFetch(h, stoplist) ==
    /\ url = UrlGood
    /\ stopwords_file = TextFile(JoinLines(stoplist))
    /\ chart_type = "bar"
    /\ stopwords = Range(splitlines(JoinLines(stoplist)))
    /\ html = h
    /\ exc = NoExc
    /\ errors = <<>>
    /\ rendered = <<>>
    /\ fetches = 1
    /\ uncaught = FALSE
    /\ response = HttpResponse(200, h)

InitNorm ==
    /\ pc = "strip_tags"
    /\ \E h \in SeqsUpTo(NormAlphabet, MaxHtmlLen) : AfterFetch(h, <<>>)
    /\ clean_text = <<>>
    /\ words = <<>>
    /\ meaningful_words = <<>>
    /\ word_counts = <<>>
    /\ most_common_words = <<>>
    /\ steps = <<"validate_url", "read_stopwords", "fetch">>

NextNorm ==
    \/ StripTags
    \/ FilterChars

SpecNorm == InitNorm /\ [][NextNorm]_vars

(***************************************************************************)
(* The ranking steps alone (lines 78-80), after a segmentation that        *)
(* returned words                                                          *)
(***************************************************************************)
MaxBase == 22
MaxExtra == 3

\* k distinct two-character words, in order
Base(k) == [i \in 1..k |-> W(i)]
BaseSizes == {0} \cup ((TopN - 1)..MaxBase)
RankVocab == {Apple, Cat, W(1), W(TopN + 1)}
Scenario == <<Apple, Banana, Apple, Orange, Apple, Banana>>
RankInputs ==
    {Base(k) \o x : k \in BaseSizes, x \in SeqsUpTo(RankVocab, MaxExtra)}
        \cup {Scenario}
StopLists == {<<>>, <<Apple>>, <<W(1)>>, <<Apple, W(1)>>}

InitRank ==
    /\ pc = "filter"
    /\ \E ws \in RankInputs, stoplist \in StopLists :
        /\ words = ws
        /\ clean_text = Concat(ws)
        /\ AfterFetch(Concat(ws), stoplist)
    /\ meaningful_words = <<>>
    /\ word_counts = <<>>
    /\ most_common_words = <<>>
    /\ steps = <<"validate_url", "read_stopwords", "fetch", "strip_tags",
                 "filter_chars", "segment">>

NextRank ==
    \/ FilterStep
    \/ CountStep
    \/ RankStep

SpecRank == InitRank /\ [][NextRank]_vars

(***************************************************************************)
(* Properties                                                              *)
(***************************************************************************)
Occurrences(ws, w) == Cardinality({i \in 1..Len(ws) : ws[i] = w})
FirstOccurrence(ws, w) ==
    CHOOSE i \in 1..Len(ws) : ws[i] = w /\ \A j \in 1..(i-1) : ws[j] # w
Surviving == {w \in Range(words) : w \notin stopwords /\ Len(w) > 1}
Ranked == "rank" \in Range(steps)

\* C1: every (word, count) record of the ranked result and of the full count
\* mapping has a word that is not a stopword and is longer than one character
C1_RecordsAreFiltered ==
    \A rec \in Range(most_common_words) \cup Range(word_counts) :
        /\ rec[1] \notin stopwords
        /\ Len(rec[1]) > 1

\* the ranking ran on words holding a stopword and a one-character word
C1_Witness ==
    /\ Ranked
    /\ most_common_words # <<>>
    /\ \E w \in Range(words) : w \in stopwords
    /\ \E w \in Range(words) : Len(w) = 1

\* C2: the ranked result has at most 20 records, counts never increase from
\* one record to the next, and of two adjacent records with equal counts the
\* first is the one whose word occurs first in the token sequence
C2_RankedOrder ==
    Ranked =>
        /\ Len(most_common_words) <= 20
        /\ \A i \in 1..(Len(most_common_words) - 1) :
            /\ most_common_words[i][2] >= most_common_words[i + 1][2]
            /\ most_common_words[i][2] = most_common_words[i + 1][2] =>
                FirstOccurrence(words, most_common_words[i][1])
                    < FirstOccurrence(words, most_common_words[i + 1][1])

\* more than 20 words survive, and the result has both a tie and a drop
C2_Witness ==
    /\ Ranked
    /\ Cardinality(Surviving) > 20
    /\ Len(most_common_words) = 20
    /\ most_common_words[1][2] > most_common_words[2][2]
    /\ most_common_words[2][2] = most_common_words[3][2]

\* C6: the ranked result has min(20, D) records, D the number of distinct
\* surviving tokens; its words are pairwise distinct; each count is the number
\* of occurrences of the word in the token sequence; no surviving word left
\* out has a count above a count in the result; and the two scenarios of the
\* specification give the results it states
C6_TopTwenty ==
    Ranked =>
        /\ Len(most_common_words) = Min(20, Cardinality(Surviving))
        /\ \A i, j \in 1..Len(most_common_words) :
            i # j => most_common_words[i][1] # most_common_words[j][1]
        /\ \A i \in 1..Len(most_common_words) :
            /\ most_common_words[i][1] \in Surviving
            /\ most_common_words[i][2]
                = Occurrences(words, most_common_words[i][1])
        /\ \A w \in Surviving :
            (\A i \in 1..Len(most_common_words) : most_common_words[i][1] # w)
              => \A i \in 1..Len(most_common_words) :
                    Occurrences(words, w) <= most_common_words[i][2]
        /\ Surviving = {} => most_common_words = <<>>
        /\ (words = Scenario /\ stopwords = {}) =>
            most_common_words = << <<Apple, 3>>, <<Banana, 2>>, <<Orange, 1>> >>
        /\ (words = Scenario /\ stopwords = {Apple}) =>
            most_common_words = << <<Banana, 2>>, <<Orange, 1>> >>

\* more than 20 words survive, one of them left out, one counted twice
C6_Witness ==
    /\ Ranked
    /\ Cardinality(Surviving) > 20
    /\ Len(most_common_words) = 20
    /\ most_common_words[1][2] >= 2
    /\ \E w \in Range(words) : w \notin Surviving

\* C3: after both normalizer steps every character of the text lies in
\* U+4E00..U+9FA5
C3_OnlyCJK ==
    pc = "segment" =>
        \A i \in 1..Len(clean_text) :
            clean_text[i] >= 19968 /\ clean_text[i] <= 40869

\* a text with a tag, a letter and a character just past the range, of which
\* something is kept
C3_Witness ==
    /\ pc = "segment"
    /\ clean_text # <<>>
    /\ \E i \in 1..Len(html) : html[i] = 97
    /\ \E i \in 1..Len(html) : html[i] = 40870
    /\ \E i \in 1..Len(html) : html[i] = LT

\* the positions of s inside a substring '<', at least `least` characters
\* other than '>', '>'
InTag(s, k, least) ==
    \E i \in 1..k : \E j \in k..Len(s) :
        /\ s[i] = LT
        /\ s[j] = GT
        /\ j - i - 1 >= least
        /\ \A m \in (i + 1)..(j - 1) : s[m] # GT
HasTag(s, least) == \E k \in 1..Len(s) : InTag(s, k, least)
RECURSIVE OutsideTags(_, _, _)
OutsideTags(s, k, least) ==
    IF k > Len(s) THEN <<>>
    ELSE (IF InTag(s, k, least) THEN <<>> ELSE <<s[k]>>)
            \o OutsideTags(s, k + 1, least)
Stripped == pc = "filter_chars"

\* C9 as stated: the output of remove_html_tags holds no '<', zero or more
\* characters other than '>', '>'; it is the input without these substrings;
\* and the step changes nothing when applied to its output
C9_NoEmptyTagEither ==
    Stripped =>
        /\ ~HasTag(clean_text, 0)
        /\ clean_text = OutsideTags(html, 1, 0)
        /\ remove_html_tags(clean_text) = clean_text

\* C9 as amended: the output of remove_html_tags holds no '<', one or more
\* characters other than '>', '>'; it is the input without these substrings,
\* every other character kept in order; and the step changes nothing when
\* applied to its output
C9_TagsRemoved ==
    Stripped =>
        /\ ~HasTag(clean_text, 1)
        /\ clean_text = OutsideTags(html, 1, 1)
        /\ remove_html_tags(clean_text) = clean_text

\* a tag was removed and text around it kept
C9_Witness ==
    /\ Stripped
    /\ HasTag(html, 1)
    /\ clean_text # <<>>
    /\ Len(clean_text) < Len(html)

PipelineSteps == {"fetch", "strip_tags", "filter_chars", "segment", "filter",
                  "count", "rank", "show_text", "show_table", "chart"}
InvalidInput == ~validators_url(url) \/ ~stopwords_file.uploaded

\* C4: with a malformed URL or no stopword file, no fetch is issued, no
\* pipeline or rendering step runs, and the run ends with the error reported
C4_ValidationBeforeFetch ==
    InvalidInput =>
        /\ fetches = 0
        /\ Range(steps) \cap PipelineSteps = {}
        /\ rendered = <<>>
        /\ pc \in {"idle", "validate_url", "read_stopwords", "done"}
        /\ response = NoResponse
        /\ pc = "done" => Len(errors) = 1 /\ ~uncaught

\* the URL is well formed, the file is missing, and the run has ended
C4_Witness ==
    /\ pc = "done"
    /\ validators_url(url)
    /\ ~stopwords_file.uploaded
    /\ errors = <<ERR_STOPWORDS>>

\* the fetch failed: no connection, or a status that is not a success (2xx)
FetchFailed ==
    response # NoResponse /\ (~response.connected \/ response.status \notin 200..299)
AfterFetchSteps == PipelineSteps \ {"fetch"}

\* C5: when the fetch fails the failure is reported and nothing else runs:
\* no normalization, segmentation or ranking, no record, nothing rendered
C5_FetchFailureAborts ==
    FetchFailed =>
        /\ Range(steps) \cap AfterFetchSteps = {}
        /\ most_common_words = <<>> /\ word_counts = <<>>
        /\ rendered = <<>>
        /\ pc \in {"except", "done"}
        /\ pc = "done" => Len(errors) = 1

\* what the code does: the same, for no connection and for a 4xx or 5xx status
C5_ErrorStatusAborts ==
    (response # NoResponse
        /\ (~response.connected \/ response.status \in 400..599)) =>
        /\ Range(steps) \cap AfterFetchSteps = {}
        /\ most_common_words = <<>> /\ word_counts = <<>>
        /\ rendered = <<>>
        /\ pc \in {"except", "done"}
        /\ pc = "done" => Len(errors) = 1

\* C8: a run whose ranked result is empty ends with the text, the table and
\* the chart rendered and no error reported, whatever the chart type
C8_EmptyResultRenders ==
    (pc \in {"except", "done"} /\ Ranked /\ most_common_words = <<>>) =>
        /\ errors = <<>>
        /\ exc = NoExc
        /\ {"text", "table", "chart"} \subseteq Range(rendered)

\* what is shown to the user as an error: the st.error calls, and the
\* exception Streamlit shows when one leaves the script
Reported == Len(errors) + (IF uncaught THEN 1 ELSE 0)

\* C10: a run reports at most one error and issues at most one fetch; after
\* an error report no step runs; a malformed URL with a missing file reports
\* the URL error alone; and every run, once the button is pressed, ends,
\* after an error report or after the chart step
C10_OneErrorThenStop ==
    /\ [](Reported <= 1 /\ fetches <= 1)
    /\ [][Reported >= 1 => UNCHANGED <<steps, rendered, errors, fetches>>]_vars
    /\ []((pc = "done" /\ ~validators_url(url) /\ ~stopwords_file.uploaded)
            => errors = <<ERR_URL>> /\ ~uncaught)
    /\ [](pc = "done" => Reported = 1 \/ steps[Len(steps)] = "chart")
    /\ [](pc # "idle" => <>(pc = "done"))

\* what the code does: the same, but a run may wait for the server for ever
C10_StopsOrWaits ==
    /\ [](Reported <= 1 /\ fetches <= 1)
    /\ [][Reported >= 1 => UNCHANGED <<steps, rendered, errors, fetches>>]_vars
    /\ []((pc = "done" /\ ~validators_url(url) /\ ~stopwords_file.uploaded)
            => errors = <<ERR_URL>> /\ ~uncaught)
    /\ [](pc = "done" => Reported = 1 \/ steps[Len(steps)] = "chart")
    /\ [](pc # "idle" => <>(pc = "done" \/ pc = "await_response"))
    /\ [](pc \in {"strip_tags", "except"} => <>(pc = "done"))

====
